---- MODULE Spec2Model ----
(***************************************************************************)
(* Cart state management and order-summary arithmetic of src/app.js.       *)
(*                                                                         *)
(* The cart lives in localStorage under CART_KEY as one serialized blob.   *)
(* Every cart operation reads the blob (getCart), changes the parsed       *)
(* object and writes the whole blob back (saveCart).  Money amounts are    *)
(* kept in thousandths of a dollar, so that the 10% discount and the 8%    *)
(* tax of a whole-dollar subtotal are exact integers.                      *)
(***************************************************************************)
EXTENDS Integers, Sequences, FiniteSets, TLC

VARIABLES
    storage,     \* the value stored under CART_KEY in localStorage
    now,         \* the last value Date.now() returned
    call,        \* the last cart operation that ran, with its arguments
    pre,         \* the value of storage when that operation started
    raised,      \* TRUE iff that operation threw instead of returning
    afterClear,  \* TRUE iff the operation before that one was clearCart
    run,         \* history: the current run of addItemToCart calls on one pair
    summaryArg,  \* the cart handed to the summary functions
    summary      \* the last order summary that was produced

vars == <<storage, now, call, pre, raised, afterClear, run, summaryArg, summary>>

-----------------------------------------------------------------------------
(* Bounds of the model *)

\* Date.now() readings are drawn from 0..MaxNow
MaxNow == 1
\* adults and kids of one item are kept within 0..MaxTickets
MaxTickets == 2
\* adults of one item of a cart handed to the summary functions
MaxSummaryAdults == 2
\* number of items of a cart handed to the summary functions
MaxSummaryLen == 2

-----------------------------------------------------------------------------
(* Inputs *)

\* (parkId, days) pairs that are booked: one park, for one day and for two days
Bookings == {<<1, 1>>, <<1, 2>>}

\* the options of the "days" select of the booking widget
DayOptions == {1, 2, 3}

TicketInputs == {0, 1}

TicketTypes == {"adults", "kids"}

\* quantities typed into a quantity input of the cart page
Quantities == {-1, 0, 1}

ParkPrice == [adult |-> 50, child |-> 30]

PriceOptions == {[adult |-> 50, child |-> 30], [adult |-> 100, child |-> 50]}

\* the id given to an item pushed when Date.now() returns t
CartId(t) == <<"cart", t>>

ItemIds == {CartId(t) : t \in 0..MaxNow}

NewItems ==
    {[parkId |-> b[1], days |-> b[2],
      tickets |-> [adults |-> a, kids |-> k],
      unitPrice |-> ParkPrice,
      parkName |-> IF b[1] = 1 THEN "Park One" ELSE "Park Two",
      parkImage |-> IF b[1] = 1 THEN "one.jpg" ELSE "two.jpg"] :
        b \in Bookings, a \in TicketInputs, k \in TicketInputs}

NoItem ==
    [parkId |-> 0, days |-> 0, tickets |-> [adults |-> 0, kids |-> 0],
     unitPrice |-> ParkPrice, parkName |-> "", parkImage |-> ""]

-----------------------------------------------------------------------------
(* localStorage and JSON *)

\* localStorage.getItem(CART_KEY) returns null: nothing is stored
Absent == [kind |-> "absent", items |-> <<>>]
\* the stored string is ""
EmptyString == [kind |-> "empty", items |-> <<>>]
\* the stored string is not JSON
Garbage == [kind |-> "garbage", items |-> <<>>]
\* the stored string is the JSON text null
JsonNull == [kind |-> "jsonnull", items |-> <<>>]
\* the stored string is a JSON object without an items array, such as {}
NoItemsObject == [kind |-> "noitems", items |-> <<>>]

\* what the key may hold when the page is opened, before any cart operation
InitialBlobs == {Absent, EmptyString, Garbage, JsonNull, NoItemsObject}

\* JSON.stringify of a cart object {items: [...]}
JSONstringify(cart) == [kind |-> "cart", items |-> cart.items]

\* JSON.parse of a stored string: throws a SyntaxError on text that is not
\* JSON, and otherwise returns the value the text denotes
JSONparse(blob) ==
    IF blob.kind = "garbage"
    THEN [raised |-> TRUE, kind |-> "none", items |-> <<>>]
    ELSE [raised |-> FALSE,
          kind |-> IF blob.kind = "cart" THEN "object" ELSE blob.kind,
          items |-> blob.items]

\* getCart: a falsy stored value (null or "") gives a fresh { items: [] },
\* anything else is handed to JSON.parse
GetCart(blob) ==
    IF blob.kind \in {"absent", "empty"}
    THEN [raised |-> FALSE, kind |-> "object", items |-> <<>>]
    ELSE JSONparse(blob)

\* cart.items is an array: cart.items.findIndex / .filter / .reduce can run
HasItemsArray(got) == ~got.raised /\ got.kind = "object"

\* saveCart
SaveCart(cart) == JSONstringify(cart)

\* a clearCart that removes another key and leaves the cart where it is
ClearCartOtherKey(blob) == blob

\* clearCart: localStorage.removeItem(CART_KEY)
ClearCartResult(blob) == Absent

-----------------------------------------------------------------------------
(* Array helpers, with JavaScript's 0-based indexes *)

\* items.splice(index, 1)
Splice1(items, index) ==
    SubSeq(items, 1, index) \o SubSeq(items, index + 2, Len(items))

-----------------------------------------------------------------------------
(* The cart operations as functions of the parsed cart *)

\* a comparison that also asks for equal ticket counts
SameBookingAndTickets(item, newItem) ==
    /\ item.parkId = newItem.parkId
    /\ item.days = newItem.days
    /\ item.tickets = newItem.tickets

\* addItemToCart, line 91: an item is unique by its parkId AND its days
SameBooking(item, newItem) ==
    item.parkId = newItem.parkId /\ item.days = newItem.days

\* addItemToCart, line 91: findIndex gives the least index whose item is of
\* the booking of newItem, or -1
FindBookingIndex(items, newItem) ==
    IF \E i \in 1..Len(items) : SameBooking(items[i], newItem)
    THEN (CHOOSE i \in 1..Len(items) :
            /\ SameBooking(items[i], newItem)
            /\ \A j \in 1..(i - 1) : ~SameBooking(items[j], newItem)) - 1
    ELSE -1

\* a merge that assigns the new counts instead of adding them
MergeTicketsAssign(tickets, added) ==
    [adults |-> added.adults, kids |-> added.kids]

\* addItemToCart, lines 95-96: the ticket counts of the found item grow
MergeTickets(tickets, added) ==
    [adults |-> tickets.adults + added.adults,
     kids |-> tickets.kids + added.kids]

\* addItemToCart, line 99: { ...newItem, id: `cart-${Date.now()}` }
NewCartItem(newItem, t) ==
    [id |-> CartId(t), parkId |-> newItem.parkId, days |-> newItem.days,
     tickets |-> newItem.tickets, unitPrice |-> newItem.unitPrice,
     parkName |-> newItem.parkName, parkImage |-> newItem.parkImage]

\* a merge that also takes the price and the display fields of newItem, as
\* { ...item, ...newItem, tickets, id } would
AddItemItemsOverwrite(items, newItem, t) ==
    LET existingItemIndex == FindBookingIndex(items, newItem)
    IN  IF existingItemIndex > -1
        THEN [items EXCEPT ![existingItemIndex + 1] =
                [@ EXCEPT !.tickets = MergeTickets(@, newItem.tickets),
                          !.unitPrice = newItem.unitPrice,
                          !.parkName = newItem.parkName,
                          !.parkImage = newItem.parkImage]]
        ELSE Append(items, NewCartItem(newItem, t))

\* addItemToCart, lines 91-100, on the items of the loaded cart
AddItemItems(items, newItem, t) ==
    LET existingItemIndex == FindBookingIndex(items, newItem)
    IN  IF existingItemIndex > -1
        THEN [items EXCEPT ![existingItemIndex + 1].tickets =
                              MergeTickets(@, newItem.tickets)]
        ELSE Append(items, NewCartItem(newItem, t))

\* a filter that keeps the items it should drop
RemoveItemItemsInverted(items, itemId) ==
    LET Keep(item) == item.id = itemId
    IN  SelectSeq(items, Keep)

\* removeItemFromCart, line 110: filter keeps, in order, the items of another id
RemoveItemItems(items, itemId) ==
    LET Keep(item) == item.id # itemId
    IN  SelectSeq(items, Keep)

\* updateCartItemQuantity, line 123: findIndex gives the least index whose item
\* has the id, or -1
FindIdIndex(items, itemId) ==
    IF \E i \in 1..Len(items) : items[i].id = itemId
    THEN (CHOOSE i \in 1..Len(items) :
            /\ items[i].id = itemId
            /\ \A j \in 1..(i - 1) : items[j].id # itemId) - 1
    ELSE -1

\* a test that is satisfied by one zero count
EitherZero(tickets) == tickets.adults = 0 \/ tickets.kids = 0

\* updateCartItemQuantity, line 129
BothZero(tickets) == tickets.adults = 0 /\ tickets.kids = 0

\* a test that lets every quantity through
QuantityAcceptedAlways(newQuantity) == TRUE

\* updateCartItemQuantity, line 126
QuantityAccepted(newQuantity) == newQuantity >= 0

\* an update that writes the quantity into both ticket types
UpdateQuantityItemsBothTypes(items, itemId, ticketType, newQuantity) ==
    LET itemIndex == FindIdIndex(items, itemId)
    IN  IF itemIndex > -1 /\ QuantityAccepted(newQuantity)
        THEN LET set == [items EXCEPT
                           ![itemIndex + 1].tickets =
                               [adults |-> newQuantity, kids |-> newQuantity]]
             IN  IF BothZero(set[itemIndex + 1].tickets)
                 THEN Splice1(set, itemIndex)
                 ELSE set
        ELSE items

\* updateCartItemQuantity, lines 123-133, on the items of the loaded cart
UpdateQuantityItems(items, itemId, ticketType, newQuantity) ==
    LET itemIndex == FindIdIndex(items, itemId)
    IN  IF itemIndex > -1 /\ QuantityAccepted(newQuantity)
        THEN LET set == [items EXCEPT
                           ![itemIndex + 1].tickets[ticketType] = newQuantity]
             IN  IF BothZero(set[itemIndex + 1].tickets)
                 THEN Splice1(set, itemIndex)
                 ELSE set
        ELSE items

-----------------------------------------------------------------------------
(* The record of the last call *)

NoId == <<"cart", -1>>

NoCall ==
    [op |-> "none", newItem |-> NoItem, itemId |-> NoId,
     ticketType |-> "adults", newQuantity |-> 0]

AddCall(newItem) == [NoCall EXCEPT !.op = "add", !.newItem = newItem]
RemoveCall(itemId) == [NoCall EXCEPT !.op = "remove", !.itemId = itemId]
UpdateCall(itemId, ticketType, newQuantity) ==
    [NoCall EXCEPT !.op = "update", !.itemId = itemId,
                   !.ticketType = ticketType, !.newQuantity = newQuantity]
ClearCall == [NoCall EXCEPT !.op = "clear"]

NoRun == [active |-> FALSE, parkId |-> 0, days |-> 0, adults |-> 0, kids |-> 0]

\* the run of addItemToCart calls on one pair, after one more call: the run
\* goes on when the call carries the pair of the run, and a new run starts
\* when the call carries a pair the cart did not hold
RunAfterAdd(r, items, newItem) ==
    IF r.active /\ r.parkId = newItem.parkId /\ r.days = newItem.days
    THEN [r EXCEPT !.adults = @ + newItem.tickets.adults,
                   !.kids = @ + newItem.tickets.kids]
    ELSE IF \A i \in 1..Len(items) : ~SameBooking(items[i], newItem)
         THEN [active |-> TRUE, parkId |-> newItem.parkId, days |-> newItem.days,
               adults |-> newItem.tickets.adults, kids |-> newItem.tickets.kids]
         ELSE NoRun

NoSummary ==
    [fn |-> "none", subtotal |-> 0, discount |-> 0, tax |-> 0, total |-> 0,
     shown |-> <<0, 0, 0, 0>>, lines |-> <<>>]

\* every count of every item is within the bound of the model
WithinTickets(items) ==
    \A i \in 1..Len(items) :
        /\ items[i].tickets.adults <= MaxTickets
        /\ items[i].tickets.kids <= MaxTickets

-----------------------------------------------------------------------------
(* The operations *)

Init ==
    /\ storage \in InitialBlobs
    /\ now = 0
    /\ call = NoCall
    /\ pre = storage
    /\ raised = FALSE
    /\ afterClear = FALSE
    /\ run = NoRun
    /\ summaryArg = <<>>
    /\ summary = NoSummary

\* what every cart operation records about itself
Called(c) ==
    /\ call' = c
    /\ pre' = storage
    /\ afterClear' = (call.op = "clear")
    /\ UNCHANGED <<summaryArg, summary>>

\* the operation threw before it reached saveCart
Throws ==
    /\ raised' = TRUE
    /\ run' = NoRun
    /\ UNCHANGED <<storage, now>>

AddItemToCart(newItem, t) ==
    LET cart == GetCart(storage)
    IN  /\ Called(AddCall(newItem))
        /\ IF ~HasItemsArray(cart)
           THEN t = now /\ Throws
           ELSE LET items == AddItemItems(cart.items, newItem, t)
                IN  /\ WithinTickets(items)
                    /\ IF FindBookingIndex(cart.items, newItem) > -1
                       THEN t = now
                       ELSE t >= now
                    /\ storage' = SaveCart([items |-> items])
                    /\ now' = t
                    /\ raised' = FALSE
                    /\ run' = RunAfterAdd(run, cart.items, newItem)

RemoveItemFromCart(itemId) ==
    LET cart == GetCart(storage)
    IN  /\ Called(RemoveCall(itemId))
        /\ IF ~HasItemsArray(cart)
           THEN Throws
           ELSE /\ storage' = SaveCart([items |-> RemoveItemItems(cart.items, itemId)])
                /\ raised' = FALSE
                /\ run' = NoRun
                /\ UNCHANGED now

UpdateCartItemQuantity(itemId, ticketType, newQuantity) ==
    LET cart == GetCart(storage)
    IN  /\ Called(UpdateCall(itemId, ticketType, newQuantity))
        /\ IF ~HasItemsArray(cart)
           THEN Throws
           ELSE /\ storage' = SaveCart([items |->
                        UpdateQuantityItems(cart.items, itemId, ticketType, newQuantity)])
                /\ raised' = FALSE
                /\ run' = NoRun
                /\ UNCHANGED now

ClearCart ==
    /\ Called(ClearCall)
    /\ storage' = ClearCartResult(storage)
    /\ raised' = FALSE
    /\ run' = NoRun
    /\ UNCHANGED now

Next ==
    \/ \E newItem \in NewItems, t \in 0..MaxNow : AddItemToCart(newItem, t)
    \/ \E itemId \in ItemIds : RemoveItemFromCart(itemId)
    \/ \E itemId \in ItemIds, ticketType \in TicketTypes, newQuantity \in Quantities :
          UpdateCartItemQuantity(itemId, ticketType, newQuantity)
    \/ ClearCart

Spec == Init /\ [][Next]_vars

-----------------------------------------------------------------------------
(* The cart operations when the price and the display fields of a park change
   between two bookings of it *)

\* what the page of park 1 shows at two different times: newItem takes its
\* unitPrice, parkName and parkImage from the park as it is when it is added
Listings ==
    {[unitPrice |-> [adult |-> 50, child |-> 30],
      parkName |-> "Park One", parkImage |-> "one.jpg"],
     [unitPrice |-> [adult |-> 100, child |-> 50],
      parkName |-> "Park One Reopened", parkImage |-> "one-new.jpg"]}

\* bookings of one ticket: park 1 for one day under either listing, and park 1
\* for two days under the first
ListedItems ==
    {[parkId |-> 1, days |-> 1,
      tickets |-> tk,
      unitPrice |-> l.unitPrice,
      parkName |-> l.parkName,
      parkImage |-> l.parkImage] :
        tk \in {[adults |-> 1, kids |-> 0], [adults |-> 0, kids |-> 1]}, l \in Listings}
    \cup {n \in NewItems : n.days = 2 /\ n.tickets.adults + n.tickets.kids = 1}

NextListed ==
    \/ \E newItem \in ListedItems, t \in 0..MaxNow : AddItemToCart(newItem, t)
    \/ \E itemId \in ItemIds : RemoveItemFromCart(itemId)
    \/ \E itemId \in ItemIds, ticketType \in TicketTypes, newQuantity \in Quantities :
          UpdateCartItemQuantity(itemId, ticketType, newQuantity)
    \/ ClearCart

SpecListed == Init /\ [][NextListed]_vars

-----------------------------------------------------------------------------
(* The order summary *)

\* the subtotal above which the bundle discount applies, in dollars
DiscountThreshold == 500
\* the factor 0.10 of the discount, in hundredths
DiscountPercent == 10
\* the factor 0.08 of the tax, in hundredths
TaxPercent == 8

\* a dollar amount in thousandths of a dollar
ToMills(dollars) == dollars * 1000

\* Number.prototype.toFixed(2) of an amount that is not negative: the amount
\* in hundredths of a dollar, rounded to the nearest
ToFixed2(mills) == (mills + 5) \div 10

\* (adults * unitPrice.adult + kids * unitPrice.child) * days
LineTotal(item) ==
    ToMills((item.tickets.adults * item.unitPrice.adult
             + item.tickets.kids * item.unitPrice.child) * item.days)

\* cart.items.reduce((total, item) => total + lineTotal, total)
RECURSIVE ReduceLineTotals(_, _)
ReduceLineTotals(items, total) ==
    IF items = <<>> THEN total
    ELSE ReduceLineTotals(Tail(items), total + LineTotal(Head(items)))

\* a discount that is also given at the threshold
CartDiscountAtThreshold(subtotal) ==
    IF subtotal >= ToMills(DiscountThreshold)
    THEN (subtotal * DiscountPercent) \div 100
    ELSE 0

\* createCartSummaryHTML, line 303
CartDiscount(subtotal) ==
    IF subtotal > ToMills(DiscountThreshold)
    THEN (subtotal * DiscountPercent) \div 100
    ELSE 0

\* createCartSummaryHTML, line 304
CartTax(subtotal, discount) == ((subtotal - discount) * TaxPercent) \div 100

\* createCheckoutSummaryHTML, line 328
CheckoutDiscount(subtotal) ==
    IF subtotal > ToMills(DiscountThreshold)
    THEN (subtotal * DiscountPercent) \div 100
    ELSE 0

\* createCheckoutSummaryHTML, line 329
CheckoutTax(subtotal, discount) == ((subtotal - discount) * TaxPercent) \div 100

\* createCartSummaryHTML: the four amounts, and the four amounts as the markup
\* shows them
CreateCartSummaryHTML(cart) ==
    LET subtotal == ReduceLineTotals(cart.items, 0)
        discount == CartDiscount(subtotal)
        tax == CartTax(subtotal, discount)
        total == subtotal - discount + tax
    IN  [fn |-> "cart", subtotal |-> subtotal, discount |-> discount,
         tax |-> tax, total |-> total,
         shown |-> <<ToFixed2(subtotal), ToFixed2(discount),
                     ToFixed2(tax), ToFixed2(total)>>,
         lines |-> <<>>]

\* createCheckoutSummaryHTML: the same four amounts, and one line per item
CreateCheckoutSummaryHTML(cart) ==
    LET subtotal == ReduceLineTotals(cart.items, 0)
        discount == CheckoutDiscount(subtotal)
        tax == CheckoutTax(subtotal, discount)
        total == subtotal - discount + tax
    IN  [fn |-> "checkout", subtotal |-> subtotal, discount |-> discount,
         tax |-> tax, total |-> total,
         shown |-> <<ToFixed2(subtotal), ToFixed2(discount),
                     ToFixed2(tax), ToFixed2(total)>>,
         lines |-> [i \in 1..Len(cart.items) |-> ToFixed2(LineTotal(cart.items[i]))]]

\* the items of the carts the summary functions are applied to
SummaryItems ==
    {[tickets |-> [adults |-> a, kids |-> k], unitPrice |-> p, days |-> d] :
        a \in 0..MaxSummaryAdults, k \in TicketInputs,
        p \in PriceOptions, d \in DayOptions}

SummaryCarts == UNION {[1..n -> SummaryItems] : n \in 0..MaxSummaryLen}

InitSummary ==
    /\ storage = Absent
    /\ now = 0
    /\ call = NoCall
    /\ pre = storage
    /\ raised = FALSE
    /\ afterClear = FALSE
    /\ run = NoRun
    /\ summaryArg \in SummaryCarts
    /\ summary = NoSummary

RenderCartSummary ==
    /\ summary' = CreateCartSummaryHTML([items |-> summaryArg])
    /\ UNCHANGED <<storage, now, call, pre, raised, afterClear, run, summaryArg>>

RenderCheckoutSummary ==
    /\ summary' = CreateCheckoutSummaryHTML([items |-> summaryArg])
    /\ UNCHANGED <<storage, now, call, pre, raised, afterClear, run, summaryArg>>

NextSummary == RenderCartSummary \/ RenderCheckoutSummary

SpecSummary == InitSummary /\ [][NextSummary]_vars

-----------------------------------------------------------------------------
(* Properties of the cart operations *)

\* the items of the stored cart, and of the cart the last operation started from
CartItems == storage.items
PreItems == pre.items

\* the last operation started from a value getCart turns into a cart
PreLoaded == HasItemsArray(GetCart(pre))

\* the index (from 0) in the cart before the call of the item the call names
CalledIndex == FindIdIndex(PreItems, call.itemId)

OtherType(ticketType) == IF ticketType = "adults" THEN "kids" ELSE "adults"

Ids(items) == {items[i].id : i \in 1..Len(items)}

\* C1: in every cart reached by addItemToCart, removeItemFromCart,
\* updateCartItemQuantity and clearCart calls, no two items share the same
\* (parkId, days) pair.
C1_UniqueBooking ==
    \A i, j \in 1..Len(CartItems) :
        i # j => ~(/\ CartItems[i].parkId = CartItems[j].parkId
                   /\ CartItems[i].days = CartItems[j].days)

\* an addItemToCart call found its pair in a cart of two items, with other
\* counts than the ones it carries
C1_Witness ==
    /\ call.op = "add"
    /\ ~raised
    /\ Len(PreItems) = 2
    /\ Len(CartItems) = 2
    /\ \E i \in 1..2 :
          /\ PreItems[i].parkId = call.newItem.parkId
          /\ PreItems[i].days = call.newItem.days
          /\ PreItems[i].tickets # call.newItem.tickets

\* C2: in every cart reached by the four operations, every item has
\* tickets.adults + tickets.kids > 0.
C2_PositiveTickets ==
    \A i \in 1..Len(CartItems) :
        CartItems[i].tickets.adults + CartItems[i].tickets.kids > 0

\* C3: addItemToCart with a (parkId, days) pair the cart does not hold appends
\* exactly one item at the end of the list, and the id of that item differs
\* from the id of every item already in the cart; so the ids of a cart are
\* pairwise distinct.
C3_FreshId ==
    /\ (/\ call.op = "add"
        /\ ~raised
        /\ \A i \in 1..Len(PreItems) :
              ~(/\ PreItems[i].parkId = call.newItem.parkId
                /\ PreItems[i].days = call.newItem.days))
       => /\ Len(CartItems) = Len(PreItems) + 1
          /\ SubSeq(CartItems, 1, Len(PreItems)) = PreItems
          /\ CartItems[Len(CartItems)].id \notin Ids(PreItems)
    /\ \A i, j \in 1..Len(CartItems) : i # j => CartItems[i].id # CartItems[j].id

\* C4: getCart never raises: when the stored value is absent, unparsable or
\* malformed it returns a fresh cart with items = [], and the operations built
\* on it complete normally.
C4_LoadNeverRaises ==
    /\ ~raised
    /\ storage.kind # "cart"
          => GetCart(storage) = [raised |-> FALSE, kind |-> "object", items |-> <<>>]

\* C5: after a sequence of addItemToCart calls that all carry the same
\* (parkId, days), starting from a cart without that pair, the cart has exactly
\* one item of that pair, and its adults and kids are the sums of the adults
\* and kids of the calls.
C5_RunSums ==
    run.active =>
        /\ Cardinality({i \in 1..Len(CartItems) :
                          /\ CartItems[i].parkId = run.parkId
                          /\ CartItems[i].days = run.days}) = 1
        /\ \A i \in 1..Len(CartItems) :
              (CartItems[i].parkId = run.parkId /\ CartItems[i].days = run.days)
                 => /\ CartItems[i].tickets.adults = run.adults
                    /\ CartItems[i].tickets.kids = run.kids

\* a run of at least two calls that carried adults, next to an item of another pair
C5_Witness ==
    /\ run.active
    /\ run.adults = 2
    /\ run.kids = 1
    /\ Len(CartItems) = 2

\* C6: when updateCartItemQuantity sets a ticket type of an item of the cart
\* to 0 and the other ticket type of the item is 0, the item is removed and
\* the cart has one item less; when the other ticket type is not 0 the item
\* stays.
C6_ZeroRemoves ==
    (call.op = "update" /\ CalledIndex > -1 /\ call.newQuantity = 0)
       => LET at == CalledIndex + 1
              other == OtherType(call.ticketType)
          IN  /\ ~raised
              /\ IF PreItems[at].tickets[other] = 0
                 THEN /\ Len(CartItems) = Len(PreItems) - 1
                      /\ \A j \in 1..Len(CartItems) :
                            CartItems[j] = PreItems[IF j < at THEN j ELSE j + 1]
                 ELSE /\ Len(CartItems) = Len(PreItems)
                      /\ CartItems[at].id = PreItems[at].id
                      /\ CartItems[at].tickets[other] = PreItems[at].tickets[other]
                      /\ CartItems[at].tickets[call.ticketType] = 0

\* the first of two items lost its last tickets and left the cart
C6_Witness ==
    /\ call.op = "update"
    /\ call.newQuantity = 0
    /\ CalledIndex = 0
    /\ Len(PreItems) = 2
    /\ PreItems[1].tickets[call.ticketType] > 0
    /\ Len(CartItems) = 1

\* C7: updateCartItemQuantity with newQuantity < 0 on an item of the cart
\* leaves the cart as it was: the same items with the same counts in the same
\* order, and the item is not removed.
C7_NegativeIgnored ==
    (call.op = "update" /\ CalledIndex > -1 /\ call.newQuantity < 0)
       => /\ ~raised
          /\ CartItems = PreItems

C7_Witness ==
    /\ call.op = "update"
    /\ call.newQuantity < 0
    /\ CalledIndex > -1
    /\ Len(CartItems) = 2

\* C8: removeItemFromCart and updateCartItemQuantity with an id that matches no
\* item of the cart are silent no-ops: the item list after the call is the list
\* before it.
C8_UnknownIdNoOp ==
    (call.op \in {"remove", "update"} /\ CalledIndex = -1)
       => /\ CartItems = PreItems
          /\ PreLoaded => ~raised

\* removeItemFromCart ran on a cart of two items with an id none of them has
C8_Witness ==
    /\ call.op = "remove"
    /\ CalledIndex = -1
    /\ Len(PreItems) = 2
    /\ Len(CartItems) = 2

\* C9: after clearCart, whatever came before, getCart returns a cart without
\* items, and an addItemToCart that follows leaves a cart of exactly the item
\* it was given.
C9_ClearThenEmpty ==
    /\ call.op = "clear"
          => GetCart(storage) = [raised |-> FALSE, kind |-> "object", items |-> <<>>]
    /\ (call.op = "add" /\ afterClear)
          => /\ ~raised
             /\ Len(CartItems) = 1
             /\ CartItems[1].parkId = call.newItem.parkId
             /\ CartItems[1].days = call.newItem.days
             /\ CartItems[1].tickets = call.newItem.tickets
             /\ CartItems[1].unitPrice = call.newItem.unitPrice

\* clearCart ran on a cart that held items
C9_Witness ==
    /\ call.op = "clear"
    /\ Len(PreItems) = 2
    /\ storage = Absent

-----------------------------------------------------------------------------
(* Properties of the order summary *)

\* the sum of the line totals of a cart, in dollars, from its last item down
RECURSIVE DollarsOf(_, _)
DollarsOf(items, n) ==
    IF n = 0 THEN 0
    ELSE DollarsOf(items, n - 1)
         + (items[n].tickets.adults * items[n].unitPrice.adult
            + items[n].tickets.kids * items[n].unitPrice.child) * items[n].days

\* C10: the summary of createCartSummaryHTML and of createCheckoutSummaryHTML
\* has subtotal = the sum of (adults*adult price + kids*child price)*days,
\* discount = 10% of the subtotal above 500 and 0 up to 500, tax = 8% of
\* (subtotal - discount), total = subtotal - discount + tax; the empty cart
\* gives 0 four times, 260 gives 20.8 and 280.8, 600 gives 60, 43.2 and 583.2.
C10_Summary ==
    summary.fn # "none" =>
        /\ summary.subtotal = 1000 * DollarsOf(summaryArg, Len(summaryArg))
        /\ summary.subtotal > 500000 => 10 * summary.discount = summary.subtotal
        /\ summary.subtotal <= 500000 => summary.discount = 0
        /\ 100 * summary.tax = 8 * (summary.subtotal - summary.discount)
        /\ summary.total = summary.subtotal - summary.discount + summary.tax
        /\ summaryArg = <<>> =>
              /\ summary.subtotal = 0 /\ summary.discount = 0
              /\ summary.tax = 0 /\ summary.total = 0
        /\ summary.subtotal = 260000 =>
              /\ summary.discount = 0
              /\ summary.tax = 20800 /\ summary.total = 280800
        /\ summary.subtotal = 600000 =>
              /\ summary.discount = 60000
              /\ summary.tax = 43200 /\ summary.total = 583200

\* the cart summary of a cart whose subtotal is exactly 500
C10_Witness ==
    /\ summary.fn = "cart"
    /\ summary.subtotal = 500000
    /\ summary.discount = 0
    /\ Len(summaryArg) = 2

-----------------------------------------------------------------------------
(* Properties of removal and of the quantity update *)

\* the position (from 1) in the cart before the call of the first item whose
\* id is the id the call names, or 0 when no item has it
FirstWithCalledId ==
    IF \E i \in 1..Len(PreItems) : PreItems[i].id = call.itemId
    THEN CHOOSE i \in 1..Len(PreItems) :
            /\ PreItems[i].id = call.itemId
            /\ \A j \in 1..(i - 1) : PreItems[j].id # call.itemId
    ELSE 0

\* C12: removeItemFromCart with the id of an item of the cart deletes that one
\* item: the cart has exactly one item less, no item of that id remains, and
\* the other items remain, unchanged, in their order.
C12_RemoveOne ==
    (call.op = "remove" /\ FirstWithCalledId > 0)
       => /\ ~raised
          /\ Len(CartItems) = Len(PreItems) - 1
          /\ call.itemId \notin Ids(CartItems)
          /\ \A j \in 1..Len(CartItems) :
                CartItems[j] = PreItems[IF j < FirstWithCalledId THEN j ELSE j + 1]

\* C13: updateCartItemQuantity(id, ticketType, q) with q >= 0 on an item of the
\* cart changes the named ticket type of the first item of that id and nothing
\* else: its other ticket type, parkId, days, unitPrice and id, every other
\* item and the order stay; the item leaves the cart when both counts are 0.
C13_UpdateFrame ==
    (call.op = "update" /\ FirstWithCalledId > 0 /\ call.newQuantity >= 0)
       => LET at == FirstWithCalledId
              other == OtherType(call.ticketType)
              gone == call.newQuantity = 0 /\ PreItems[at].tickets[other] = 0
          IN  /\ ~raised
              /\ gone =>
                    /\ Len(CartItems) = Len(PreItems) - 1
                    /\ \A j \in 1..Len(CartItems) :
                          CartItems[j] = PreItems[IF j < at THEN j ELSE j + 1]
              /\ ~gone =>
                    /\ Len(CartItems) = Len(PreItems)
                    /\ \A j \in 1..Len(CartItems) : j # at => CartItems[j] = PreItems[j]
                    /\ CartItems[at].tickets[call.ticketType] = call.newQuantity
                    /\ CartItems[at].tickets[other] = PreItems[at].tickets[other]
                    /\ CartItems[at].id = PreItems[at].id
                    /\ CartItems[at].parkId = PreItems[at].parkId
                    /\ CartItems[at].days = PreItems[at].days
                    /\ CartItems[at].unitPrice = PreItems[at].unitPrice
                    /\ CartItems[at].parkName = PreItems[at].parkName
                    /\ CartItems[at].parkImage = PreItems[at].parkImage

\* the second of two items got another count of one ticket type and kept the
\* count of the other type, which was not 0
C13_Witness ==
    /\ call.op = "update"
    /\ call.newQuantity = 1
    /\ FirstWithCalledId = 2
    /\ Len(CartItems) = 2
    /\ PreItems[2].tickets[call.ticketType] = 2
    /\ PreItems[2].tickets[OtherType(call.ticketType)] = 2
    /\ CartItems[2].tickets[call.ticketType] = 1

-----------------------------------------------------------------------------
(* Properties of the merge *)

\* the position (from 1) in the cart before the call of the first item of the
\* (parkId, days) pair of the item the call carries, or 0 when there is none
FirstOfCalledBooking ==
    IF \E i \in 1..Len(PreItems) :
          /\ PreItems[i].parkId = call.newItem.parkId
          /\ PreItems[i].days = call.newItem.days
    THEN CHOOSE i \in 1..Len(PreItems) :
            /\ PreItems[i].parkId = call.newItem.parkId
            /\ PreItems[i].days = call.newItem.days
            /\ \A j \in 1..(i - 1) :
                  ~(/\ PreItems[j].parkId = call.newItem.parkId
                    /\ PreItems[j].days = call.newItem.days)
    ELSE 0

\* C11: when addItemToCart merges into the item of the same (parkId, days),
\* only the adults and kids of that item change: its id, unitPrice, parkName,
\* parkImage and position stay, also when newItem carries another unitPrice
\* or other display values, and every other item is unchanged.
C11_MergeFrame ==
    (call.op = "add" /\ ~raised /\ FirstOfCalledBooking > 0)
       => LET at == FirstOfCalledBooking
          IN  /\ Len(CartItems) = Len(PreItems)
              /\ \A j \in 1..Len(CartItems) : j # at => CartItems[j] = PreItems[j]
              /\ CartItems[at].id = PreItems[at].id
              /\ CartItems[at].parkId = PreItems[at].parkId
              /\ CartItems[at].days = PreItems[at].days
              /\ CartItems[at].unitPrice = PreItems[at].unitPrice
              /\ CartItems[at].parkName = PreItems[at].parkName
              /\ CartItems[at].parkImage = PreItems[at].parkImage
              /\ CartItems[at].tickets.adults
                    = PreItems[at].tickets.adults + call.newItem.tickets.adults
              /\ CartItems[at].tickets.kids
                    = PreItems[at].tickets.kids + call.newItem.tickets.kids

\* a merge into the first of two items, by a call that carries another price,
\* another name and another image than the item has
C11_Witness ==
    /\ call.op = "add"
    /\ ~raised
    /\ FirstOfCalledBooking = 1
    /\ Len(PreItems) = 2
    /\ call.newItem.unitPrice # PreItems[1].unitPrice
    /\ call.newItem.parkName # PreItems[1].parkName
    /\ call.newItem.parkImage # PreItems[1].parkImage
    /\ CartItems[1].tickets # PreItems[1].tickets

====
